---- MODULE Spec2Model ----
(***************************************************************************)
(* Model of NextcloudBackup (src/nextcloudBackup.py) as driven by          *)
(* src/main.py: one process per run, the Singleton metaclass, __init__,    *)
(* main() and tearDown(), over a small file system, three log files with   *)
(* Python file-handle semantics (a handle has a position; write() writes   *)
(* at the position, truncate() leaves it where it is), a mount table and   *)
(* external commands that may fail.                                        *)
(*                                                                         *)
(* Strings that the code takes apart (paths, the pending-retry log) are    *)
(* sequences of one-character strings.  Times are integer ticks;           *)
(* strftime('%c') keeps whole seconds only.                                *)
(***************************************************************************)
EXTENDS Integers, Sequences, FiniteSets, TLC

\* ------------------------------------------------------------------ bounds
\* Clock resolution: ticks per second (file mtimes have sub-second
\* resolution, '%c' timestamps do not).
TicksPerSec == 2
\* The clock advances at most this many ticks past StartTime.
ClockSpan == 1
\* External changes to the source tree (write / delete) in one behaviour.
MaxEnv == 1
\* Runs of main.py in one behaviour of SpecRuns.
MaxRuns == 2

\* ------------------------------------------------------- class constants
NEXTCLOUD_DATA == <<"/", "v", "a", "r", "/", "w", "w", "w", "/", "n", "e", "x", "t", "c", "l", "o", "u", "d", "/", "d", "a", "t", "a", "/">>
NEXTCLOUD_DATA_BACKUP == <<"/", "m", "n", "t", "/", "n", "e", "x", "t", "c", "l", "o", "u", "d", "_", "b", "a", "c", "k", "u", "p", "/">>
NEXTCLOUD_BACKUP_PARTITION == "/dev/sdc1"
IGNORED_FILE_TYPES == {<<"p", "a", "r", "t">>}
\* 'Tue Jan 29 19:37:23 2000\n', as a tick count: the oldest time of the model
OLD_DUMMY_DATE == 0
\* The time an earlier run committed, the time this run starts, and the
\* end of the clock
PrevRun == OLD_DUMMY_DATE + TicksPerSec
StartTime == PrevRun + TicksPerSec
MaxTime == StartTime + ClockSpan

NL == "\n"
NUL == "NUL"

\* ---------------------------------------------------------------- strings
\* s[from..] (1-based), the Python slice s[from-1:]
Drop(s, n) == SubSeq(s, n + 1, Len(s))

StartsWith(s, p) == Len(s) >= Len(p) /\ SubSeq(s, 1, Len(p)) = p

\* str.replace(old, new): every non-overlapping occurrence, left to right.
\* An empty `old` is only ever replaced by the empty string here
\* (dst.replace('', '') is dst).
RECURSIVE Replace(_, _, _)
Replace(s, old, new) ==
    IF old = <<>> \/ Len(s) < Len(old) THEN s
    ELSE IF StartsWith(s, old)
         THEN new \o Replace(Drop(s, Len(old)), old, new)
         ELSE <<s[1]>> \o Replace(Tail(s), old, new)

\* str.rfind(ch) + 1: the 1-based index of the last ch, 0 when there is none
RFind(s, ch) ==
    LET I == {i \in 1..Len(s) : s[i] = ch}
    IN  IF I = {} THEN 0 ELSE CHOOSE i \in I : \A j \in I : j <= i

\* str.find(ch) + 1
Find(s, ch) ==
    LET I == {i \in 1..Len(s) : s[i] = ch}
    IN  IF I = {} THEN 0 ELSE CHOOSE i \in I : \A j \in I : i <= j

\* A split that finds no extension (what C11 must tell from line 198)
NoExt(s) == <<>>

\* s.split('.')[-1]
LastExt(s) == Drop(s, RFind(s, "."))

\* x.strip('\n')
RECURSIVE StripNL(_)
StripNL(s) ==
    IF s = <<>> THEN s
    ELSE IF s[1] = NL THEN StripNL(Tail(s))
    ELSE IF s[Len(s)] = NL THEN StripNL(SubSeq(s, 1, Len(s) - 1))
    ELSE s

\* the lines of a text, each with its newline (file.readlines())
RECURSIVE SplitLines(_)
SplitLines(s) ==
    IF s = <<>> THEN <<>>
    ELSE LET i == Find(s, NL)
         IN  IF i = 0 THEN <<s>>
             ELSE <<SubSeq(s, 1, i)>> \o SplitLines(Drop(s, i))

\* the components of a path: os.path normalisation of '//' and of a
\* trailing '/'
RECURSIVE Components(_)
Components(s) ==
    IF s = <<>> THEN <<>>
    ELSE IF s[1] = "/" THEN Components(Tail(s))
    ELSE LET i == Find(s, "/")
         IN  IF i = 0 THEN <<s>>
             ELSE <<SubSeq(s, 1, i - 1)>> \o Components(Drop(s, i))

HasNul(s) == \E i \in 1..Len(s) : s[i] = NUL

\* n zero bytes
Zeros(n) == [i \in 1..n |-> NUL]

RECURSIVE Flatten(_)
Flatten(ss) == IF ss = <<>> THEN <<>> ELSE ss[1] \o Flatten(Tail(ss))

\* ------------------------------------------------------------------ times
\* datetime.strftime('%c') followed by strptime(..., '%c'): whole seconds
Strftime(t) == t - (t % TicksPerSec)

\* ------------------------------------------------------- the source tree
\* The files the source root may hold, in os.walk order (top-down: the
\* root's files, then those of its sub-directory d/).  FileP is an upload
\* in progress, of an ignored type.
FileA == NEXTCLOUD_DATA \o <<"a", ".", "t", "x", "t">>
FileB == NEXTCLOUD_DATA \o <<"d", "/", "b", ".", "t", "x", "t">>
FileP == NEXTCLOUD_DATA \o <<"c", ".", "p", "a", "r", "t">>
WalkOrder == <<FileA, FileP, FileB>>
Paths == {WalkOrder[i] : i \in 1..Len(WalkOrder)}

\* --------------------------------------------------------- run arguments
\* An attribute of the args object: present or not, a bool or not, its value
BoolAttr(b) == [has |-> TRUE, isBool |-> TRUE, val |-> b]
MissingAttr == [has |-> FALSE, isBool |-> FALSE, val |-> FALSE]
IntAttr == [has |-> TRUE, isBool |-> FALSE, val |-> TRUE]
\* What main.py's parser yields (a Namespace of two bools) and the malformed
\* objects of tests.py: not a Namespace, an attribute missing, an int.
ArgInputs ==
    {[ns |-> TRUE, verbose |-> BoolAttr(v), dry_run |-> BoolAttr(d)] : v, d \in BOOLEAN}
    \cup {[ns |-> FALSE, verbose |-> BoolAttr(FALSE), dry_run |-> BoolAttr(FALSE)],
          [ns |-> TRUE, verbose |-> MissingAttr, dry_run |-> BoolAttr(FALSE)],
          [ns |-> TRUE, verbose |-> BoolAttr(FALSE), dry_run |-> IntAttr]}

MsgNotNamespace == "Error: expected object of type 'argparse.Namespace'"
MsgMissingAttr == "Error: missing required attributes in Namespace object"
MsgNotBool == "Error: expected property of type 'bool'"
MsgNoData == "Error: Nextcloud data directory does not exist"
MsgNoMountPoint == "Error: Nextcloud backup mount point does not exist"
MsgNoPartition == "Error: Nextcloud backup partition does not exist"

\* A checkArgs that leaves verbose as given (what C5 must tell from checkArgs)
checkArgsKeepsVerbose(a) ==
    IF ~a.ns THEN [exit |-> MsgNotNamespace, args |-> a]
    ELSE IF ~a.verbose.has \/ ~a.dry_run.has THEN [exit |-> MsgMissingAttr, args |-> a]
    ELSE IF ~a.verbose.isBool \/ ~a.dry_run.isBool THEN [exit |-> MsgNotBool, args |-> a]
    ELSE [exit |-> "none", args |-> a]

\* checkArgs(args): the exit message ("none": accepted) and the args object
\* as it is left (dry run implies verbose)
checkArgs(a) ==
    IF ~a.ns THEN [exit |-> MsgNotNamespace, args |-> a]
    ELSE IF ~a.verbose.has \/ ~a.dry_run.has THEN [exit |-> MsgMissingAttr, args |-> a]
    ELSE IF ~a.verbose.isBool \/ ~a.dry_run.isBool THEN [exit |-> MsgNotBool, args |-> a]
    ELSE [exit |-> "none",
          args |-> IF a.dry_run.val THEN [a EXCEPT !.verbose = BoolAttr(TRUE)] ELSE a]

\* --------------------------------------------------------------- commands
\* Exit statuses of an external command
ReturnCodes == {0, 32}

\* `needle in text` for the device names of the model: Python's `in` on
\* strings is a substring test.
Occurs(needle, name) ==
    \/ needle = name
    \/ needle = "sdc1" /\ name = "sdc10"
    \/ needle = "/dev/sdc1" /\ name \in {"/dev/sdc1", "/dev/sdc10"}

\* An executeCommand that runs the command in a dry run too (what C13 must
\* tell from executeCommand)
executeCommandAlways(dry, rc, out) ==
    IF rc # 0 THEN [ran |-> TRUE, fatal |-> TRUE, out |-> {}]
    ELSE [ran |-> TRUE, fatal |-> FALSE, out |-> out]

\* executeCommand(command): in a dry run nothing runs and '' is returned;
\* otherwise the command runs, a non-zero status is fatal, and the output
\* (here: the set of names it lists) is returned.
executeCommand(dry, rc, out) ==
    IF dry THEN [ran |-> FALSE, fatal |-> FALSE, out |-> {}]
    ELSE IF rc # 0 THEN [ran |-> TRUE, fatal |-> TRUE, out |-> {}]
    ELSE [ran |-> TRUE, fatal |-> FALSE, out |-> out]

\* A checkDataExists that does not look at the device listing (what C19 must
\* tell from checkDataExists)
checkDirsExist(hasData, hasMountPoint, lsblk) ==
    IF ~hasData THEN MsgNoData
    ELSE IF ~hasMountPoint THEN MsgNoMountPoint
    ELSE "none"

\* checkDataExists(): the message of the first failed check, "none" if all
\* pass; lsblk is the text returned by executeCommand('lsblk -l')
checkDataExists(hasData, hasMountPoint, lsblk) ==
    IF ~hasData THEN MsgNoData
    ELSE IF ~hasMountPoint THEN MsgNoMountPoint
    ELSE IF ~(\E name \in lsblk : Occurs("sdc1", name)) THEN MsgNoPartition
    ELSE "none"

\* -------------------------------------------------------------- the files
LogNames == {"log", "error", "errored"}

\* file.write(s) on a text of characters, at the handle's position: past the
\* end of the file the gap reads as zero bytes
WriteChars(c, pos, s) ==
    IF pos >= Len(c) THEN c \o Zeros(pos - Len(c)) \o s
    ELSE SubSeq(c, 1, pos) \o s \o Drop(c, pos + Len(s))

\* file.write(line) on a file of equally wide records, at the handle's
\* position (counted in records)
WriteRecord(c, pos, r) ==
    IF pos >= Len(c) THEN Append(c, r) ELSE [c EXCEPT ![pos + 1] = r]

\* Singleton._instance = None
None == 0
\* A guard that always constructs (what C1 must tell from the guard)
AlwaysNewInstance(inst) == TRUE
\* Singleton.__call__ line 22: a new instance is created only when there is
\* none
NeedsNewInstance(inst) == inst = None

\* ------------------------------------------------------------------ state
VARIABLES
    pc,         \* position of the running process ("ended": it is over)
    exit,       \* how the last process ended ("none" while it runs)
    runs,       \* processes started so far
    now,        \* the clock, in ticks
    args,       \* self.args
    instance,   \* Singleton._instance (None: 0)
    objs,       \* NextcloudBackup objects created by this process
    inits,      \* executions of __init__ begun by this process
    handles,    \* the objects the constructor has returned in this process
    toBackup,   \* self.toBackup
    lastBackup, \* main()'s lastBackup (-1: not read)
    walkIdx,    \* os.walk: files of WalkOrder visited so far
    idx,        \* copy loop: entries of toBackup done so far
    exc,        \* the exception main() raised ("none")
    files,      \* contents of the run log, the error log, the retry log
    present,    \* the log files that exist on disk
    fh,         \* self.log, self.error, self.erroredFiles: state and position
    dataExists, \* os.path.exists(NEXTCLOUD_DATA)
    mountPoint, \* os.path.exists(NEXTCLOUD_DATA_BACKUP)
    devices,    \* block devices of the machine
    mounts,     \* the mount table: <<device, where>>
    src,        \* the source tree: path -> [exists, mtime]
    mirDirs,    \* directories of the backup volume (lists of components)
    mirFiles,   \* files of the backup volume (lists of components)
    ops,        \* what this process did to logs and commands, in order
    envSteps,   \* external changes to the source tree so far
    hist        \* facts recorded for the properties

procVars == <<args, instance, objs, inits, handles, toBackup, lastBackup, walkIdx, idx, exc>>
fileVars == <<files, present, fh>>
osVars == <<dataExists, mountPoint, devices>>
treeVars == <<src, mirDirs, mirFiles>>
vars == <<pc, exit, runs, now, procVars, fileVars, osVars, mounts, treeVars, ops, envSteps, hist>>

DryRun == args.dry_run.val
Verbose == args.verbose.val

NoHandle == [st |-> "none", pos |-> 0]
NoArgs == [ns |-> TRUE, verbose |-> BoolAttr(FALSE), dry_run |-> BoolAttr(FALSE)]
\* given: the args object as passed; validated, argsValidated: checkArgs
\* accepted it, and what it returned; again: the constructor was called
\* while an instance existed; seeded: the sentinel was written;
\* retryAtStart, retryRead, seed: the pending-retry log as found, whether it
\* was read, the change set made of it; visits: the files the walk looked
\* at, with the backup volume as it was then; failures: the failed copies handled; tdBegun, tdAt, logAtTd:
\* tearDown() was entered, and the length of ops and the run log then;
\* failed: the command that returned a non-zero status;
\* late: the files with a copy on the backup volume that another program
\* wrote after the walk had looked at them;
\* prev: how the run before this one ended, how many copies failed in it,
\* the files it found still there when it handled their failed copy, its
\* change set and its late files;
\* atStart: the logs, the backup volume and the mount table as the process
\* found them
NoHist == [given |-> NoArgs, validated |-> FALSE, argsValidated |-> NoArgs,
           again |-> FALSE, seeded |-> FALSE,
           retryAtStart |-> <<>>, retryRead |-> FALSE, seed |-> <<>>,
           visits |-> <<>>, failures |-> <<>>,
           tdBegun |-> FALSE, tdAt |-> 0, logAtTd |-> <<>>,
           failed |-> "none", late |-> {},
           prev |-> [exit |-> "none", failures |-> 0, retry |-> {}, taken |-> {}, late |-> {}],
           atStart |-> [log |-> <<>>, error |-> <<>>, errored |-> <<>>,
                        mirDirs |-> {}, mirFiles |-> {}, mounts |-> {}]]

\* The record hist.atStart of a process that starts with logs f, the
\* backup volume holding directories d and files m, and the mount table
Found(f, d, m) ==
    [log |-> f.log, error |-> f.error, errored |-> f.errored, mirDirs |-> d, mirFiles |-> m,
     mounts |-> mounts]

\* A line of the pending-retry log
Line(p) == p \o <<NL>>

\* The logs the earlier runs left: none at all (a first run); a run log
\* holding the sentinel and the time of an earlier run; the same with two
\* files waiting in the pending-retry log and the record of a failed copy in
\* the error log
NoLogs == [present |-> {}, log |-> <<>>, error |-> <<>>, errored |-> <<>>]
OldLogs == [present |-> LogNames, log |-> <<OLD_DUMMY_DATE, PrevRun>>, error |-> <<>>,
            errored |-> <<>>]
\* the error record the earlier run wrote when a copy failed (lines 221-223)
OldRecord ==
    [cmd |-> "copy", path |-> Replace(FileB, NEXTCLOUD_DATA, NEXTCLOUD_DATA_BACKUP),
     time |-> PrevRun]
RetryLogs == [OldLogs EXCEPT !.errored = Line(FileB) \o Line(FileA), !.error = <<OldRecord>>]
\* the run log of an earlier run, and a file of an ignored type waiting in
\* the pending-retry log
PartLogs == [OldLogs EXCEPT !.errored = Line(FileP)]

\* The machine: the backup device with nothing mounted; the device left
\* mounted at the mount point or elsewhere by a crashed run; another device
\* mounted; only a device whose name contains the backup device's; no device
\* (data, mp: the source root and the mount point exist)
Machine(d, m) == [devices |-> d, mounts |-> m, data |-> TRUE, mp |-> TRUE]
Normal == Machine({"sdc1", "sdc10"}, {})
OtherMachines ==
    {Machine({"sdc1", "sdc10"}, {<<"sdc1", "mp">>}),
     Machine({"sdc1", "sdc10"}, {<<"sdc1", "elsewhere">>}),
     Machine({"sdc1", "sdc10"}, {<<"sdc10", "elsewhere">>}),
     Machine({"sdc10"}, {}),
     Machine({}, {}),
     [Normal EXCEPT !.data = FALSE],
     [Normal EXCEPT !.mp = FALSE],
     [Normal EXCEPT !.data = FALSE, !.mp = FALSE]}

MirrorOfA == Components(Replace(FileA, NEXTCLOUD_DATA, NEXTCLOUD_DATA_BACKUP))

\* What a run may find.  t is the mtime of FileA (before, at or after the
\* earlier run) and copied says whether the backup volume holds its copy;
\* FileB is newer than the earlier run and not copied yet; part says
\* whether FileP is there (as new as FileB, never copied).
Scenario(l, m, t, c) == [logs |-> l, machine |-> m, t |-> t, copied |-> c, part |-> FALSE]
Scenarios ==
    {Scenario(NoLogs, Normal, PrevRun + 1, FALSE)}
    \cup {Scenario(OldLogs, Normal, t, c) : t \in {PrevRun - 1, PrevRun, PrevRun + 1}, c \in BOOLEAN}
    \cup {Scenario(RetryLogs, Normal, PrevRun - 1, TRUE)}
    \cup {[Scenario(PartLogs, Normal, PrevRun - 1, TRUE) EXCEPT !.part = TRUE]}
    \cup {Scenario(RetryLogs, m, PrevRun + 1, FALSE) : m \in OtherMachines}

\* The state in which `python3 main.py ...` starts: line 13 of main.py is
\* about to call NextcloudBackup(args)
Init ==
    /\ pc = "call" /\ exit = "none" /\ runs = 1 /\ now = StartTime
    /\ args \in ArgInputs /\ instance = None /\ objs = 0 /\ inits = 0
    /\ handles = {}
    /\ toBackup = <<>> /\ lastBackup = -1 /\ walkIdx = 0 /\ idx = 0 /\ exc = "none"
    /\ fh = [n \in LogNames |-> NoHandle]
    /\ \E sc \in Scenarios :
         /\ files = [log |-> sc.logs.log, error |-> sc.logs.error, errored |-> sc.logs.errored]
         /\ present = sc.logs.present
         /\ dataExists = sc.machine.data /\ mountPoint = sc.machine.mp
         /\ devices = sc.machine.devices /\ mounts = sc.machine.mounts
         /\ src = [p \in Paths |->
                     [exists |-> (p = FileP => sc.part),
                      mtime |-> IF p = FileA THEN sc.t ELSE PrevRun + 1]]
         /\ mirFiles = IF sc.copied THEN {MirrorOfA} ELSE {}
    /\ mirDirs = {}
    /\ ops = <<>> /\ envSteps = 0
    /\ hist = [NoHist EXCEPT !.given = args, !.atStart = Found(files, mirDirs, mirFiles)]

\* --------------------------------------------------------------- the run
Ended(how) == pc' = "ended" /\ exit' = how

\* Singleton.__call__ (lines 20-25).  With no instance, a new object is
\* created and its __init__ begins (line 42: self.toBackup = []); the
\* instance is stored when __init__ has returned (action Mount3).
\* Otherwise the stored instance is returned.  The caller calls at line 13
\* of main.py and may call again inside the with block, when main() has
\* returned, and after the block.
SingletonCall ==
    /\ \/ pc = "call"
       \/ pc = "copy" /\ idx = Len(toBackup)
       \/ pc = "tornDown"
    /\ IF NeedsNewInstance(instance)
       THEN /\ objs' = objs + 1 /\ inits' = inits + 1
            /\ toBackup' = <<>>
            /\ pc' = "checkArgs"
            /\ UNCHANGED handles
       ELSE /\ handles' = handles \cup {instance}
            /\ UNCHANGED <<objs, inits, toBackup, pc>>
    /\ hist' = [hist EXCEPT !.again = (pc # "call")]
    /\ UNCHANGED <<exit, runs, now, args, instance, lastBackup, walkIdx, idx, exc,
                   fileVars, osVars, mounts, treeVars, ops, envSteps>>

\* __init__ line 45: self.args = self.checkArgs(args)
CheckArgs ==
    /\ pc = "checkArgs"
    /\ LET r == checkArgs(args)
       IN  /\ args' = r.args
           /\ IF r.exit # "none"
              THEN Ended(r.exit) /\ UNCHANGED hist
              ELSE /\ pc' = "checkData" /\ UNCHANGED exit
                   /\ hist' = [hist EXCEPT !.validated = TRUE, !.argsValidated = r.args]
    /\ UNCHANGED <<runs, now, instance, objs, inits, handles, toBackup, lastBackup,
                   walkIdx, idx, exc, fileVars, osVars, mounts, treeVars, ops, envSteps>>

\* __init__ line 49: self.checkDataExists().  'lsblk -l' runs only when both
\* directories exist; self.error is not opened yet, so the error branch of
\* executeCommand (line 162) raises AttributeError.
CheckDataExists ==
    /\ pc = "checkData"
    /\ \E rc \in ReturnCodes :
         LET runsLsblk == dataExists /\ mountPoint
             r == executeCommand(DryRun, rc, devices)
             msg == checkDataExists(dataExists, mountPoint, r.out)
         IN  /\ (~runsLsblk => rc = 0)
             /\ ops' = IF runsLsblk /\ r.ran THEN Append(ops, "lsblk -l") ELSE ops
             /\ IF runsLsblk /\ r.fatal THEN Ended("AttributeError")
                ELSE IF msg # "none" THEN Ended(msg)
                ELSE pc' = "openLogs" /\ UNCHANGED exit
             /\ hist' = [hist EXCEPT !.failed = IF runsLsblk /\ r.fatal THEN "lsblk -l" ELSE @]
    /\ UNCHANGED <<runs, now, procVars, fileVars, osVars, mounts, treeVars, envSteps>>

\* openLogFile(path) (lines 134-141), for the three logs of lines 52-54: a
\* missing file is created empty ('w+'), an existing one is opened 'r+';
\* either way the handle starts at position 0 and the content is kept.
OpenLogs ==
    /\ pc = "openLogs"
    /\ present' = LogNames
    /\ fh' = [n \in LogNames |-> [st |-> "open", pos |-> 0]]
    /\ ops' = ops \o <<"open log", "open error", "open errored">>
    /\ pc' = "reconcile"
    /\ hist' = [hist EXCEPT !.retryAtStart = files.errored]
    /\ UNCHANGED <<exit, runs, now, procVars, files, osVars, mounts, treeVars, envSteps>>

\* Reading the lines as they are (what C8 must tell from line 62)
SeedKeepsNewline(text) == SplitLines(text)

\* The initial change set read from the pending-retry log (line 62)
SeedChangeSet(text) ==
    LET lines == SplitLines(text)
    IN  [i \in 1..Len(lines) |-> StripNL(lines[i])]

\* __init__ lines 56-65: seed an empty run log with the sentinel; read a
\* non-empty pending-retry log into toBackup and truncate it.  write()
\* moves the run log's handle past the sentinel; readlines() moves the
\* retry log's handle to the end of what it read and truncate(0) leaves
\* it there.
Reconcile ==
    /\ pc = "reconcile"
    /\ LET seedLog == Len(files.log) = 0
           readRetry == Len(files.errored) # 0
           text == Drop(files.errored, fh.errored.pos)
       IN  /\ files' = [files EXCEPT
                  !.log = IF seedLog THEN WriteRecord(@, fh.log.pos, OLD_DUMMY_DATE) ELSE @,
                  !.errored = IF readRetry THEN <<>> ELSE @]
           /\ fh' = [fh EXCEPT
                  !.log.pos = IF seedLog THEN @ + 1 ELSE @,
                  !.errored.pos = IF readRetry THEN Len(files.errored) ELSE @]
           /\ toBackup' = IF readRetry THEN SeedChangeSet(text) ELSE toBackup
           /\ ops' = ops \o (IF seedLog THEN <<"write log">> ELSE <<>>)
                         \o (IF readRetry THEN <<"read errored", "truncate errored">> ELSE <<>>)
           /\ hist' = [hist EXCEPT !.seeded = seedLog, !.retryRead = readRetry,
                                   !.seed = toBackup']
    /\ pc' = "mount1"
    /\ UNCHANGED <<exit, runs, now, args, instance, objs, inits, handles, lastBackup,
                   walkIdx, idx, exc, present, osVars, mounts, treeVars, envSteps>>

\* The record executeCommand writes to the error log (lines 160-162), and
\* the one main() writes for a failed copy (lines 221-223)
CommandError(cmd) == [cmd |-> cmd, path |-> <<>>, time |-> Strftime(now)]
CopyError(dst) == [cmd |-> "copy", path |-> dst, time |-> Strftime(now)]

\* self.error.write(record): files and handles after it
ErrorWritten(rec) == [files EXCEPT !.error = WriteRecord(@, fh.error.pos, rec)]
ErrorAdvanced == [fh EXCEPT !.error.pos = @ + 1]

\* executeCommand(cmd) (lines 143-167) where the code calls it: `can` says
\* whether the command can succeed in this state (it may fail anyway),
\* `after` is the mount table it leaves, `next` where the code goes on.
\* A non-zero status writes the error record and exits with the status.
RunCommand(cmd, can, after, next) ==
    \E rc \in ReturnCodes :
        LET r == executeCommand(DryRun, rc, {})
        IN  /\ (r.ran /\ rc = 0 => can)
            /\ (~r.ran => rc = 0)
            /\ IF r.fatal
               THEN /\ files' = ErrorWritten(CommandError(cmd))
                    /\ fh' = ErrorAdvanced
                    /\ ops' = ops \o <<cmd, "write error">>
                    /\ Ended("SystemExit(32)")
                    /\ UNCHANGED mounts
               ELSE /\ mounts' = IF r.ran THEN after ELSE mounts
                    /\ ops' = IF r.ran THEN Append(ops, cmd) ELSE ops
                    /\ pc' = next
                    /\ UNCHANGED <<files, fh, exit>>

\* hist after a step that called executeCommand(cmd): a non-zero status has
\* ended the process
Failing(h, cmd) == [h EXCEPT !.failed = IF pc' = "ended" THEN cmd ELSE @]

MountedAt(where) == {m \in mounts : m[2] = where}
MountedFrom(dev) == {m \in mounts : m[1] = dev}
\* os.path.ismount(NEXTCLOUD_DATA_BACKUP)
IsMount == MountedAt("mp") # {}
\* the device column of 'mount -l'
DevPath(d) == IF d = "sdc1" THEN "/dev/sdc1" ELSE "/dev/sdc10"
MountListing == {DevPath(m[1]) : m \in mounts}

\* mountBackupPartition() lines 172-173
Mount1 ==
    /\ pc = "mount1"
    /\ IF IsMount
       THEN RunCommand("umount mp", TRUE, mounts \ MountedAt("mp"), "mount2")
       ELSE pc' = "mount2" /\ UNCHANGED <<files, fh, ops, exit, mounts>>
    /\ hist' = Failing(hist, "umount mp")
    /\ UNCHANGED <<runs, now, procVars, present, osVars, treeVars, envSteps>>

\* mountBackupPartition() line 176: the mount listing and the test on it
Mount2 ==
    /\ pc = "mount2"
    /\ LET listed == \E name \in executeCommand(DryRun, 0, MountListing).out :
                         Occurs(NEXTCLOUD_BACKUP_PARTITION, name)
       IN  RunCommand("mount -l", TRUE, mounts, IF listed THEN "mount2u" ELSE "mount3")
    /\ hist' = Failing(hist, "mount -l")
    /\ UNCHANGED <<runs, now, procVars, present, osVars, treeVars, envSteps>>

\* mountBackupPartition() line 177
Mount2u ==
    /\ pc = "mount2u"
    /\ RunCommand("umount dev", MountedFrom("sdc1") # {}, mounts \ MountedFrom("sdc1"), "mount3")
    /\ hist' = Failing(hist, "umount dev")
    /\ UNCHANGED <<runs, now, procVars, present, osVars, treeVars, envSteps>>

\* mountBackupPartition() lines 180-181, the return of __init__, the
\* assignment of Singleton._instance (line 23) and __enter__ (line 71)
Mount3 ==
    /\ pc = "mount3"
    /\ RunCommand("mount dev mp", "sdc1" \in devices, mounts \cup {<<"sdc1", "mp">>}, "main")
    /\ instance' = IF pc' = "main" THEN objs ELSE instance
    /\ handles' = IF pc' = "main" THEN handles \cup {objs} ELSE handles
    /\ hist' = Failing(hist, "mount dev mp")
    /\ UNCHANGED <<runs, now, args, objs, inits, toBackup, lastBackup, walkIdx, idx, exc,
                   present, osVars, treeVars, envSteps>>

\* ------------------------------------------------------------ main()
\* os.path.exists() of a path of the backup volume, and of a source path
BackupRoot == Components(NEXTCLOUD_DATA_BACKUP)
MirrorExists(path) ==
    /\ ~HasNul(path)
    /\ LET c == Components(path)
       IN  c = BackupRoot \/ c \in mirDirs \/ c \in mirFiles
SourceExists(path) ==
    /\ ~HasNul(path)
    /\ \E p \in Paths : Components(p) = Components(path) /\ src[p].exists

\* line 193 / line 201: path.replace(NEXTCLOUD_DATA, NEXTCLOUD_DATA_BACKUP)
Dst(path) == Replace(path, NEXTCLOUD_DATA, NEXTCLOUD_DATA_BACKUP)
\* line 202: dst.replace(dst[dst.rfind('/') + 1:], '')
DestPath(dst) == Replace(dst, Drop(dst, RFind(dst, "/")), <<>>)

\* A test that also takes a file as old as the last run (what C6 must tell
\* from the test of the code)
NeedsBackupNotEarlier(mtime, last, dstExists) == mtime >= last \/ ~dstExists

\* lines 192-193: the test that puts a file in the change set
NeedsBackup(mtime, last, dstExists) == mtime > last \/ ~dstExists

\* A block that tears down only when main() returns (what C2 must tell from
\* the with block)
LeaveBlockOnReturnOnly(e) == pc' = (IF e = "none" THEN "tdUmount" ELSE "tornDown") /\ exc' = e

\* main() returns or raises inside the with block of main.py: __exit__
\* (line 75) calls tearDown()
LeaveBlock(e) == pc' = "tdUmount" /\ exc' = e

\* line 186: the last line the run-log handle reads from its position on
MainRead ==
    /\ pc = "main"
    /\ LET lines == Drop(files.log, fh.log.pos)
       IN  /\ fh' = [fh EXCEPT !.log.pos = Len(files.log)]
           /\ IF lines = <<>>
              THEN LeaveBlock("IndexError") /\ UNCHANGED lastBackup
              ELSE pc' = "walk" /\ lastBackup' = lines[Len(lines)] /\ UNCHANGED exc
    /\ UNCHANGED <<exit, runs, now, args, instance, objs, inits, handles, toBackup,
                   walkIdx, idx, files, present, osVars, mounts, treeVars, ops, envSteps, hist>>

\* lines 189-194: the next file of the walk
WalkStep ==
    /\ pc = "walk"
    /\ LET p == WalkOrder[walkIdx + 1]
           there == MirrorExists(Dst(p))
           take == src[p].exists /\ NeedsBackup(src[p].mtime, lastBackup, there)
       IN  /\ toBackup' = IF take THEN Append(toBackup, p) ELSE toBackup
           /\ hist' = IF src[p].exists
                      THEN [hist EXCEPT !.visits = Append(@,
                               [path |-> p, mtime |-> src[p].mtime, last |-> lastBackup,
                                there |-> there, volume |-> mirDirs \cup mirFiles,
                                taken |-> toBackup' # toBackup])]
                      ELSE hist
    /\ walkIdx' = walkIdx + 1
    /\ pc' = IF walkIdx' = Len(WalkOrder) THEN "copy" ELSE "walk"
    /\ UNCHANGED <<exit, runs, now, args, instance, objs, inits, handles, lastBackup,
                   idx, exc, fileVars, osVars, mounts, treeVars, ops, envSteps>>

\* os.makedirs(path, exist_ok=True): the directory and its missing parents
Prefixes(c) == {SubSeq(c, 1, n) : n \in 1..Len(c)}
MadeDirs(path) == {d \in Prefixes(Components(path)) : d \notin Prefixes(BackupRoot)}
\* shutil.copy2(src, dst) can succeed when the source exists and the
\* destination's directory does
ParentOf(path) == LET c == Components(path) IN SubSeq(c, 1, Len(c) - 1)
CanCopy(source, dst, dirs) ==
    /\ SourceExists(source) /\ ~HasNul(dst)
    /\ ParentOf(dst) \in dirs \cup {BackupRoot}
    /\ Components(dst) \notin dirs

\* lines 197-224: one entry of the change set, up to the error record of a
\* failed copy.  makedirs is outside the try block: an error there leaves
\* main().  A failed copy may leave a partial destination file.
CopyStep ==
    /\ pc = "copy" /\ idx < Len(toBackup)
    /\ LET source == toBackup[idx + 1]
           dst == Dst(source)
           destPath == DestPath(dst)
           mkdir == ~MirrorExists(destPath)
       IN  IF LastExt(source) \in IGNORED_FILE_TYPES
           THEN /\ idx' = idx + 1
                /\ UNCHANGED <<pc, exc, files, fh, mirDirs, mirFiles, ops, hist>>
           ELSE \E made \in BOOLEAN, copied \in {"yes", "no", "partly"} :
                /\ (~mkdir => made)
                /\ (mkdir /\ (HasNul(destPath) \/ Components(destPath) = <<>>) => ~made)
                /\ (~made => copied = "no")
                /\ mirDirs' = IF mkdir /\ made THEN mirDirs \cup MadeDirs(destPath) ELSE mirDirs
                /\ IF ~made
                   THEN /\ LeaveBlock("makedirs error")
                        /\ UNCHANGED <<idx, files, fh, mirFiles, ops, hist>>
                   ELSE IF DryRun
                   THEN /\ copied = "no"
                        /\ idx' = idx + 1
                        /\ UNCHANGED <<pc, exc, files, fh, mirFiles, ops, hist>>
                   ELSE /\ (copied # "no" => CanCopy(source, dst, mirDirs'))
                        /\ mirFiles' = IF copied = "no" THEN mirFiles
                                       ELSE mirFiles \cup {Components(dst)}
                        /\ IF copied = "yes"
                           THEN /\ idx' = idx + 1
                                /\ UNCHANGED <<pc, exc, files, fh, ops, hist>>
                           ELSE /\ files' = ErrorWritten(CopyError(dst))
                                /\ fh' = ErrorAdvanced
                                /\ ops' = Append(ops, "write error")
                                /\ pc' = "copyFailed"
                                /\ UNCHANGED <<idx, exc, hist>>
    /\ UNCHANGED <<exit, runs, now, args, instance, objs, inits, handles, toBackup,
                   lastBackup, walkIdx, present, osVars, mounts, src, envSteps>>

\* lines 226-227: the failed file is written to the pending-retry log if it
\* still exists
CopyFailed ==
    /\ pc = "copyFailed"
    /\ LET source == toBackup[idx + 1]
           still == SourceExists(source)
       IN  /\ files' = IF still
                       THEN [files EXCEPT !.errored = WriteChars(@, fh.errored.pos, Line(source))]
                       ELSE files
           /\ fh' = IF still THEN [fh EXCEPT !.errored.pos = @ + Len(Line(source))] ELSE fh
           /\ ops' = IF still THEN Append(ops, "write errored") ELSE ops
           /\ hist' = [hist EXCEPT !.failures = Append(@, [path |-> source, still |-> still])]
    /\ idx' = idx + 1
    /\ pc' = "copy"
    /\ UNCHANGED <<exit, runs, now, args, instance, objs, inits, handles, toBackup,
                   lastBackup, walkIdx, exc, present, osVars, mounts, treeVars, envSteps>>

\* the loop of line 197 is exhausted: main() returns
MainReturn ==
    /\ pc = "copy" /\ idx = Len(toBackup)
    /\ LeaveBlock("none")
    /\ UNCHANGED <<exit, runs, now, args, instance, objs, inits, handles, toBackup,
                   lastBackup, walkIdx, idx, fileVars, osVars, mounts, treeVars, ops, envSteps, hist>>

\* --------------------------------------------------------- tearDown()
\* line 80: umount of the backup partition
TdUmount ==
    /\ pc = "tdUmount"
    /\ RunCommand("umount dev", MountedFrom("sdc1") # {}, mounts \ MountedFrom("sdc1"), "tdSpinDown")
    /\ hist' = Failing([hist EXCEPT !.tdBegun = TRUE, !.tdAt = Len(ops), !.logAtTd = files.log],
                        "umount dev")
    /\ UNCHANGED <<runs, now, procVars, present, osVars, treeVars, envSteps>>

\* line 83: hdparm -y
TdSpinDown ==
    /\ pc = "tdSpinDown"
    /\ RunCommand("hdparm -y dev", TRUE, mounts, "tdCommit")
    /\ hist' = Failing(hist, "hdparm -y dev")
    /\ UNCHANGED <<runs, now, procVars, present, osVars, treeVars, envSteps>>

\* A tearDown() that never writes the time (what C3 must tell from lines
\* 85-92)
TearDownWithoutCommit(dry) == <<"close log", "close error", "close errored">>

\* What tearDown() does to the logs after the two commands (lines 85-92)
TearDownLogOps(dry) ==
    (IF dry THEN <<>> ELSE <<"write log">>) \o <<"close log", "close error", "close errored">>

\* lines 85-92: the time of the run is written at the run-log handle's
\* position unless this is a dry run; the three logs are closed
TdCommit ==
    /\ pc = "tdCommit"
    /\ LET steps == TearDownLogOps(DryRun)
           writes == Len(SelectSeq(steps, LAMBDA o : o = "write log"))
       IN  /\ files' = IF writes > 0
                       THEN [files EXCEPT !.log = WriteRecord(@, fh.log.pos, Strftime(now))]
                       ELSE files
           /\ fh' = [n \in LogNames |->
                       [st |-> IF \E i \in 1..Len(steps) :
                                     steps[i] = IF n = "log" THEN "close log"
                                                ELSE IF n = "error" THEN "close error"
                                                ELSE "close errored"
                               THEN "closed" ELSE fh[n].st,
                        pos |-> IF n = "log" THEN fh[n].pos + writes ELSE fh[n].pos]]
           /\ ops' = ops \o steps
    /\ pc' = "tornDown"
    /\ UNCHANGED <<exit, runs, now, procVars, present, osVars, mounts, treeVars, envSteps, hist>>

\* main.py ends after the with block: with the exception main() raised, if
\* any (__exit__ returns None and does not suppress it)
ProcessExit ==
    /\ pc = "tornDown"
    /\ Ended(IF exc = "none" THEN "ok" ELSE exc)
    /\ UNCHANGED <<runs, now, procVars, fileVars, osVars, mounts, treeVars, ops, envSteps, hist>>

\* ---------------------------------------------------------- environment
\* Time passes.  The clock is read by the external writers, for the error
\* records and by tearDown(): it is let advance in the copy loop and before
\* tearDown() writes the time.
Tick ==
    /\ pc \in {"copy", "tdCommit"}
    /\ now < MaxTime
    /\ now' = now + 1
    /\ UNCHANGED <<pc, exit, runs, procVars, fileVars, osVars, mounts, treeVars, ops, envSteps, hist>>

\* Another program writes a source file, or deletes one, while main() looks
\* at the source tree
Watching == pc \in {"main", "walk", "copy", "copyFailed", "tdUmount"}
ExternalWrite(p) ==
    /\ Watching /\ envSteps < MaxEnv
    /\ src' = [src EXCEPT ![p] = [exists |-> TRUE, mtime |-> now]]
    /\ envSteps' = envSteps + 1
    /\ hist' = [hist EXCEPT !.late =
                  IF MirrorExists(Dst(p)) /\ \E i \in 1..Len(hist.visits) : hist.visits[i].path = p
                  THEN @ \cup {p} ELSE @]
    /\ UNCHANGED <<pc, exit, runs, now, procVars, fileVars, osVars, mounts, mirDirs, mirFiles, ops>>
ExternalDelete(p) ==
    /\ Watching /\ envSteps < MaxEnv
    /\ src[p].exists
    /\ src' = [src EXCEPT ![p].exists = FALSE]
    /\ envSteps' = envSteps + 1
    /\ UNCHANGED <<pc, exit, runs, now, procVars, fileVars, osVars, mounts, mirDirs, mirFiles, ops, hist>>

Next ==
    \/ SingletonCall
    \/ CheckArgs
    \/ CheckDataExists
    \/ OpenLogs
    \/ Reconcile
    \/ Mount1
    \/ Mount2
    \/ Mount2u
    \/ Mount3
    \/ MainRead
    \/ WalkStep
    \/ CopyStep
    \/ CopyFailed
    \/ MainReturn
    \/ TdUmount
    \/ TdSpinDown
    \/ TdCommit
    \/ ProcessExit
    \/ Tick
    \/ \E p \in Paths : ExternalWrite(p)
    \/ \E p \in Paths : ExternalDelete(p)

Spec == Init /\ [][Next]_vars

\* ------------------------------------------------------ one run after another
\* What the first of several runs may find: the logs of an earlier run, the
\* device unmounted or left mounted elsewhere, FileA old and copied or
\* written at this very moment, FileB new, no FileP; or two files waiting in
\* the pending-retry log.  The run starts on a whole second or within one.
RunScenarios ==
    {Scenario(OldLogs, Normal, t, t < PrevRun) : t \in {PrevRun - 1, MaxTime}}
    \cup {Scenario(RetryLogs, Normal, PrevRun - 1, TRUE)}
    \cup {Scenario(OldLogs, Machine({"sdc1", "sdc10"}, {<<"sdc1", "elsewhere">>}), PrevRun - 1, TRUE)}

InitRuns ==
    /\ pc = "call" /\ exit = "none" /\ runs = 1 /\ now \in {StartTime, MaxTime}
    /\ args = NoArgs /\ instance = None /\ objs = 0 /\ inits = 0
    /\ handles = {}
    /\ toBackup = <<>> /\ lastBackup = -1 /\ walkIdx = 0 /\ idx = 0 /\ exc = "none"
    /\ fh = [n \in LogNames |-> NoHandle]
    /\ \E sc \in RunScenarios :
         /\ sc.t <= now
         /\ files = [log |-> sc.logs.log, error |-> sc.logs.error, errored |-> sc.logs.errored]
         /\ present = sc.logs.present
         /\ dataExists = sc.machine.data /\ mountPoint = sc.machine.mp
         /\ devices = sc.machine.devices /\ mounts = sc.machine.mounts
         /\ src = [p \in Paths |->
                     [exists |-> (p = FileP => sc.part),
                      mtime |-> IF p = FileA THEN sc.t ELSE PrevRun + 1]]
         /\ mirFiles = IF sc.copied THEN {MirrorOfA} ELSE {}
    /\ mirDirs = {}
    /\ ops = <<>> /\ envSteps = 0
    /\ hist = [NoHist EXCEPT !.given = args, !.atStart = Found(files, mirDirs, mirFiles)]

\* The process is over and main.py is started again with the same command
\* line: a new process, with no instance and no open file; the logs, the
\* mount table, the source tree and the backup volume are as the last run
\* left them.
NextRun ==
    /\ pc = "ended" /\ runs < MaxRuns
    /\ runs' = runs + 1
    /\ pc' = "call" /\ exit' = "none"
    /\ args' = hist.given /\ instance' = None /\ objs' = 0 /\ inits' = 0
    /\ handles' = {}
    /\ toBackup' = <<>> /\ lastBackup' = -1 /\ walkIdx' = 0 /\ idx' = 0 /\ exc' = "none"
    /\ fh' = [n \in LogNames |-> NoHandle]
    /\ ops' = <<>>
    /\ hist' = [NoHist EXCEPT !.given = hist.given,
                              !.prev = [exit |-> exit, failures |-> Len(hist.failures),
                                        retry |-> {hist.failures[i].path :
                                                     i \in {j \in 1..Len(hist.failures) :
                                                              hist.failures[j].still}},
                                        taken |-> {toBackup[i] : i \in 1..Len(toBackup)},
                                        late |-> hist.late],
                              !.atStart = Found(files, mirDirs, mirFiles)]
    /\ UNCHANGED <<now, files, present, osVars, mounts, treeVars, envSteps>>

NextRuns == Next \/ NextRun

SpecRuns == InitRuns /\ [][NextRuns]_vars

\* ------------------------------------------------ paths waiting for a retry
\* Files an earlier run could not copy and that are gone since: a file
\* named like its directory, a file named like the last directory of the
\* source root, and a file below a directory tree that repeats the source
\* root.
FileD == NEXTCLOUD_DATA \o <<"d", "/", "d">>
FileData == NEXTCLOUD_DATA \o <<"d", "a", "t", "a">>
FileNested == NEXTCLOUD_DATA \o <<"u">> \o NEXTCLOUD_DATA \o <<"q">>
PathInputs == {FileA, FileB, FileD, FileData, FileNested}
PathLogs(p) == [OldLogs EXCEPT !.errored = Line(p)]
PathScenarios ==
    {Scenario(PathLogs(p), Normal, PrevRun - 1, TRUE) : p \in PathInputs}
    \cup {Scenario(PathLogs(FileD), Machine({"sdc1", "sdc10"}, {<<"sdc1", "elsewhere">>}),
                   PrevRun + 1, FALSE)}

\* A run that finds one of these paths in the pending-retry log
InitPaths ==
    /\ pc = "call" /\ exit = "none" /\ runs = 1 /\ now = StartTime
    /\ args = NoArgs /\ instance = None /\ objs = 0 /\ inits = 0
    /\ handles = {}
    /\ toBackup = <<>> /\ lastBackup = -1 /\ walkIdx = 0 /\ idx = 0 /\ exc = "none"
    /\ fh = [n \in LogNames |-> NoHandle]
    /\ \E sc \in PathScenarios :
         /\ files = [log |-> sc.logs.log, error |-> sc.logs.error, errored |-> sc.logs.errored]
         /\ present = sc.logs.present
         /\ dataExists = sc.machine.data /\ mountPoint = sc.machine.mp
         /\ devices = sc.machine.devices /\ mounts = sc.machine.mounts
         /\ src = [p \in Paths |->
                     [exists |-> (p = FileP => sc.part),
                      mtime |-> IF p = FileA THEN sc.t ELSE PrevRun + 1]]
         /\ mirFiles = IF sc.copied THEN {MirrorOfA} ELSE {}
    /\ mirDirs = {}
    /\ ops = <<>> /\ envSteps = 0
    /\ hist = [NoHist EXCEPT !.given = args, !.atStart = Found(files, mirDirs, mirFiles)]

SpecPaths == InitPaths /\ [][Next]_vars

\* ------------------------------------------------------------ properties
Range(f) == {f[i] : i \in DOMAIN f}
IsPrefix(s, t) == Len(s) <= Len(t) /\ SubSeq(t, 1, Len(s)) = s
NoLogTouched == \A n \in LogNames : fh[n] = NoHandle
MountCommands == {"umount mp", "umount dev", "mount -l", "mount dev mp"}

\* C1: whatever constructor calls are made while an instance exists, they
\* all return that instance, and no second object is created and __init__
\* is not run a second time.
SingleInstance ==
    /\ objs <= 1 /\ inits <= 1 /\ Cardinality(handles) <= 1
    /\ instance # None => objs = 1 /\ inits = 1 /\ handles = {instance}
    /\ hist.again => instance # None
    /\ Len(SelectSeq(ops, LAMBDA o : o = "open log")) <= 1
    /\ Len(SelectSeq(ops, LAMBDA o : o = "mount dev mp")) <= 1

\* C1 is met where the constructor was called again with the instance stored
CalledAgain == hist.again /\ instance # None /\ handles = {instance} /\ inits = 1

\* What tearDown() does from its first line on, in a run that is not dry
TearDownSteps ==
    <<"umount dev", "hdparm -y dev", "write log", "close log", "close error", "close errored">>
SinceTearDown == Drop(ops, hist.tdAt)
FullTearDown ==
    /\ hist.tdBegun
    /\ SinceTearDown = TearDownSteps
    /\ \A n \in LogNames : fh[n].st = "closed"
    /\ files.log = Append(hist.logAtTd, Strftime(now))
\* tearDown() cut short by a command that returned a non-zero status:
\* executeCommand wrote the error record and ended the process
TearDownCut ==
    /\ hist.tdBegun
    /\ pc = "ended" /\ exit = "SystemExit(32)"
    /\ SinceTearDown \in {<<"umount dev", "write error">>,
                          <<"umount dev", "hdparm -y dev", "write error">>}
    /\ files.log = hist.logAtTd
BlockLeft == instance # None /\ pc \in {"tornDown", "ended"}

\* C2, as stated: when the with block has been left and the process is
\* over, the full teardown sequence has run.
AlwaysFullTearDown == BlockLeft => FullTearDown

\* C2, amended: every exit from the with block, by return or by exception,
\* enters tearDown(), which runs in full unless its unmount or its
\* spin-down returns a non-zero status; then the error record is written
\* and the process ends with the status, the time not written.
ScopedRelease == BlockLeft => FullTearDown \/ TearDownCut

\* C2 is met where main() raised and the full teardown followed
ReleasedAfterRaise == pc = "ended" /\ exit \in {"IndexError", "makedirs error"} /\ FullTearDown

BackupDeviceListed == "sdc1" \in devices
FirstFailedCheck ==
    IF ~dataExists THEN MsgNoData
    ELSE IF ~mountPoint THEN MsgNoMountPoint
    ELSE IF ~BackupDeviceListed THEN MsgNoPartition
    ELSE "none"

\* C4, as stated: with the data root, the mount point or the backup device
\* missing, construction ends with the message of the first failed check,
\* no log opened or written, no mount or unmount command issued.
PreconditionsStop ==
    (hist.validated /\ ~DryRun /\ FirstFailedCheck # "none" /\ pc # "checkData") =>
        /\ pc = "ended" /\ exit \in {FirstFailedCheck, "AttributeError"}
        /\ NoLogTouched
        /\ Range(ops) \cap MountCommands = {}

\* The run that shows C4 wrong began with the device missing and opened logs
OpenedWithoutDevice == hist.validated /\ ~BackupDeviceListed /\ ~NoLogTouched

Malformed(a) ==
    ~a.ns \/ ~a.verbose.has \/ ~a.dry_run.has \/ ~a.verbose.isBool \/ ~a.dry_run.isBool
RejectMessage(a) ==
    IF ~a.ns THEN MsgNotNamespace
    ELSE IF ~a.verbose.has \/ ~a.dry_run.has THEN MsgMissingAttr
    ELSE MsgNotBool

\* C5: a malformed args object ends construction with its message, before
\* any command runs and before a log is opened; an accepted one has
\* dry_run => verbose from validation on, and self.args stays what
\* validation returned, dry_run as it was given.
ConfigValidated ==
    /\ Malformed(hist.given) /\ pc \notin {"call", "checkArgs"} =>
         /\ pc = "ended" /\ exit = RejectMessage(hist.given)
         /\ ~hist.validated /\ ops = <<>> /\ NoLogTouched
    /\ hist.validated =>
         /\ ~Malformed(hist.given)
         /\ DryRun => Verbose
         /\ args = hist.argsValidated
         /\ DryRun = hist.given.dry_run.val
         /\ ~DryRun => Verbose = hist.given.verbose.val

\* C5 is met where a dry run given without verbose has run to its end
DryRunMadeVerbose ==
    pc = "ended" /\ hist.validated /\ DryRun /\ ~hist.given.verbose.val /\ Verbose

\* The mirrored destination of a source path: the path below the source
\* root, put below the root of the backup volume
MirrorPath(p) == BackupRoot \o Components(Drop(p, Len(NEXTCLOUD_DATA)))
TakenPaths ==
    LET taken == SelectSeq(hist.visits, LAMBDA v : v.taken)
    IN  [i \in 1..Len(taken) |-> taken[i].path]
\* the run log is as the run found it until tearDown() writes to it
InMain == pc \in {"walk", "copy", "copyFailed", "tdUmount", "tdSpinDown", "tdCommit"}

\* C6: the walk appends a file exactly when its mtime is later than the last
\* line of the run log or the backup volume holds nothing at its mirrored
\* path; the change set is the seed followed by the files so taken, and a
\* walk nobody interferes with looks at every file.
WalkSelects ==
    InMain /\ lastBackup # -1 =>
        /\ \A i \in 1..Len(hist.visits) :
             LET v == hist.visits[i]
             IN  v.taken <=> \/ v.mtime > files.log[Len(files.log)]
                             \/ MirrorPath(v.path) \notin v.volume
        /\ toBackup = hist.seed \o TakenPaths
        /\ Len(hist.visits) <= walkIdx
        /\ envSteps = 0 =>
             Len(hist.visits) = Cardinality({i \in 1..walkIdx : src[WalkOrder[i]].exists})

\* C6 is met where the walk is over, having taken one file and left one
WalkTookAndLeft ==
    /\ pc = "copy" /\ idx = 0
    /\ \E i, j \in 1..Len(hist.visits) : hist.visits[i].taken /\ ~hist.visits[j].taken

\* C7, as stated: in the run that seeded the run log, main() reads the
\* sentinel as the last-run time and every file of the source tree is put
\* in the change set.
FirstRunTakesAll ==
    (hist.seeded /\ hist.tdBegun /\ envSteps = 0) =>
        /\ lastBackup = OLD_DUMMY_DATE
        /\ {p \in Paths : src[p].exists} \subseteq Range(toBackup)

\* The run that shows C7 wrong seeded the log and left main() by IndexError
FirstRunRaises == hist.seeded /\ hist.tdBegun /\ exc = "IndexError" /\ toBackup = <<>>

AfterReconcile == pc \in {"mount1", "mount2", "mount2u", "mount3", "main"}

\* C8: a pending-retry log that is not empty at startup becomes the change
\* set, line by line in file order without the newlines, and is empty once
\* read; an empty one leaves the change set empty and is neither read nor
\* truncated.
InitialChangeSet ==
    AfterReconcile =>
        IF hist.retryAtStart # <<>>
        THEN /\ hist.retryRead
             /\ Flatten([i \in 1..Len(toBackup) |-> Line(toBackup[i])]) = hist.retryAtStart
             /\ \A i \in 1..Len(toBackup) : NL \notin Range(toBackup[i])
             /\ files.errored = <<>>
        ELSE /\ toBackup = <<>> /\ files.errored = <<>>
             /\ Range(ops) \cap {"read errored", "truncate errored"} = {}

\* C8 is met where two pending lines have become the change set
SeededFromRetryLog ==
    AfterReconcile /\ hist.retryRead /\ toBackup = <<FileB, FileA>> /\ files.errored = <<>>

\* the entries of the pending-retry log for a path, zero bytes before a
\* line not counted against it
WithoutNul(l) == SelectSeq(l, LAMBDA ch : ch # NUL)
RetryEntries(p) ==
    LET lines == SplitLines(files.errored)
    IN  Cardinality({i \in 1..Len(lines) : WithoutNul(lines[i]) = Line(p)})
FailedPaths == {hist.failures[i].path : i \in 1..Len(hist.failures)}
StillThere(p) == \E i \in 1..Len(hist.failures) : hist.failures[i] = [path |-> p, still |-> TRUE]

\* C9, as stated: when main() has returned, the pending-retry log holds one
\* entry for each file whose copy failed and that still existed when the
\* failure was handled, none for a failed file that did not.
OneRetryEntry ==
    (hist.tdBegun /\ exc = "none") =>
        \A p \in FailedPaths : RetryEntries(p) = IF StillThere(p) THEN 1 ELSE 0

\* The run that shows C9 wrong has two entries for one file
RetryEntryTwice == hist.tdBegun /\ exc = "none" /\ \E p \in FailedPaths : RetryEntries(p) = 2

\* C10, as stated: a failure on one file never ends main(); when the walk
\* is done, main() returns with every entry of the change set processed.
CopyLoopCompletes ==
    (hist.tdBegun /\ lastBackup # -1) => exc = "none" /\ idx = Len(toBackup)

\* The run that shows C10 wrong left main() on a makedirs error, with an
\* entry of the change set unprocessed and nothing in the error log
PassEndedByMakedirs ==
    hist.tdBegun /\ exc = "makedirs error" /\ idx < Len(toBackup) /\ files.error = <<>>

\* a path of an ignored type: its name ends in '.part'
EndsWith(s, e) == Len(s) >= Len(e) /\ SubSeq(s, Len(s) - Len(e) + 1, Len(s)) = e
Ignored(p) == \E t \in IGNORED_FILE_TYPES : EndsWith(p, <<".">> \o t)
ErrorPaths == {files.error[i].path : i \in 1..Len(files.error)}

\* C11: a path of an ignored type may be in the change set, but the backup
\* volume never holds a file at its mirrored path, no failed copy is handled
\* for it, no error record names its destination, and the run writes no
\* pending-retry entry for it (an entry found is one the run has not yet
\* read).
IgnoredNeverCopied ==
    \A p \in Paths : Ignored(p) =>
        /\ MirrorPath(p) \notin mirFiles
        /\ p \notin FailedPaths
        /\ Dst(p) \notin ErrorPaths
        /\ RetryEntries(p) = 0 \/ (~hist.retryRead /\ "write errored" \notin Range(ops))

\* C11 is met where the copy loop is over, the change set held the ignored
\* file both from the seed and from the walk, and another file was copied
IgnoredPassedOver ==
    /\ hist.tdBegun /\ exc = "none" /\ idx = Len(toBackup)
    /\ Len(toBackup) >= 2
    /\ toBackup[1] = FileP /\ \E i \in 2..Len(toBackup) : toBackup[i] = FileP
    /\ MirrorPath(FileB) \in mirFiles

\* the run before this one copied all it took and left through tearDown(),
\* and no other program has touched the source tree
AfterCleanRun == runs > 1 /\ hist.prev.exit = "ok" /\ hist.prev.failures = 0 /\ envSteps = 0

\* C12, as stated: after a run that copied every file and committed its
\* time, with no source file changed, the next run's walk takes nothing:
\* when its copy loop starts the change set is empty.
SecondRunIdle == (AfterCleanRun /\ pc = "copy") => toBackup = <<>>

\* The run that shows C12 wrong takes a file that has its copy and was not
\* written since before the first run's walk
Recopied ==
    /\ AfterCleanRun /\ pc = "copy" /\ idx = 0
    /\ \E i \in 1..Len(hist.visits) :
         LET v == hist.visits[i]
         IN  v.taken /\ MirrorPath(v.path) \in v.volume /\ v.mtime <= v.last + TicksPerSec

Commands == MountCommands \cup {"lsblk -l", "hdparm -y dev"}

DryRunGoesOn ==
    (hist.validated /\ DryRun /\ pc = "ended"
       /\ exit \in {MsgNoData, MsgNoMountPoint, MsgNoPartition}) => exit = FirstFailedCheck

\* The run that shows C14 wrong is a dry run stopped for a missing partition
\* on a machine that has it
DryRunStopped ==
    /\ hist.validated /\ DryRun /\ pc = "ended" /\ exit = MsgNoPartition
    /\ dataExists /\ mountPoint /\ BackupDeviceListed
    /\ toBackup = <<>> /\ lastBackup = -1

ErrorWrites == Len(SelectSeq(ops, LAMBDA o : o = "write error"))

\* C15, as stated: a command that returns a non-zero status in a run that
\* is not dry ends the process with that status, its record the last of the
\* error log, appended after what the log held, and nothing done after it.
CommandFailureRecorded ==
    hist.failed # "none" =>
        /\ pc = "ended" /\ exit = "SystemExit(32)"
        /\ Len(ops) >= 2 /\ SubSeq(ops, Len(ops) - 1, Len(ops)) = <<hist.failed, "write error">>
        /\ Len(files.error) = Len(hist.atStart.error) + ErrorWrites
        /\ files.error[Len(files.error)].cmd = hist.failed

\* The run that shows C15 wrong ended on the failed device listing with no
\* record written
ListingFailedUnrecorded ==
    /\ hist.failed = "lsblk -l" /\ pc = "ended" /\ exit = "AttributeError"
    /\ files.error = hist.atStart.error /\ NoLogTouched

\* C16, as stated: the error log only grows at its end: what it held when
\* the run started is still its beginning.
ErrorLogAppendOnly == IsPrefix(hist.atStart.error, files.error)

\* The run that shows C16 wrong has written its record over the old one
OldRecordOverwritten ==
    /\ hist.atStart.error = <<OldRecord>>
    /\ ErrorWrites = 1 /\ Len(files.error) = 1 /\ files.error[1] # OldRecord

\* C17, as stated: when a command of mountBackupPartition() fails, the
\* process ends with the backup volume, the run log and the pending-retry
\* log as it found them.
StartupAbortClean ==
    (pc = "ended" /\ instance = None /\ hist.failed \in MountCommands) =>
        /\ mirDirs = hist.atStart.mirDirs /\ mirFiles = hist.atStart.mirFiles
        /\ files.log = hist.atStart.log
        /\ files.errored = hist.atStart.errored

\* The run that shows C17 wrong ended on the failed mount with the pending
\* entries gone
RetryEntriesLost ==
    /\ pc = "ended" /\ instance = None /\ hist.failed = "mount dev mp"
    /\ hist.atStart.errored = Line(FileB) \o Line(FileA) /\ files.errored = <<>>
    /\ files.log = hist.atStart.log

\* the commands mountBackupPartition() has issued, and those the mount
\* table found at startup calls for: the mount point is unmounted if
\* something is mounted there, the backup device if it is still mounted
\* after that
MountOps ==
    SelectSeq(IF hist.tdBegun THEN SubSeq(ops, 1, hist.tdAt) ELSE ops,
              LAMBDA o : o \in MountCommands)
MountPlan ==
    LET atMp == {m \in hist.atStart.mounts : m[2] = "mp"}
        left == hist.atStart.mounts \ atMp
    IN  (IF atMp # {} THEN <<"umount mp">> ELSE <<>>)
        \o <<"mount -l">>
        \o (IF \E m \in left : m[1] = "sdc1" THEN <<"umount dev">> ELSE <<>>)
        \o <<"mount dev mp">>

\* C18, as stated: the commands of mountBackupPartition() are issued in the
\* order of the plan, all of them once construction has succeeded, and the
\* copy loop runs with the backup device mounted at the mount point.
MountSequence ==
    /\ IsPrefix(MountOps, MountPlan)
    /\ instance # None => MountOps = MountPlan
    /\ pc \in {"copy", "copyFailed"} => <<"sdc1", "mp">> \in mounts

\* The run that shows C18 wrong tried to unmount the backup device, which
\* was not mounted, because another device was, and never mounted it
ForeignMountMistaken ==
    /\ hist.atStart.mounts = {<<"sdc10", "elsewhere">>}
    /\ pc = "ended" /\ hist.failed = "umount dev" /\ instance = None
    /\ MountOps = <<"mount -l", "umount dev">>

FailedRunKeepsTime ==
    (pc \in {"tornDown", "ended"} /\ exc # "none") =>
        files.log \in {hist.atStart.log, <<OLD_DUMMY_DATE>>}

\* The run that shows C20 wrong left main() on an error with an entry of the
\* change set unprocessed and wrote its time as the last line of the run log
FailedRunCommitted ==
    /\ pc = "tornDown" /\ exc = "makedirs error" /\ idx < Len(toBackup)
    /\ files.log = Append(hist.atStart.log, Strftime(now))

\* the exits of a process that left the with block through tearDown()
ThroughTearDown(e) == e \in {"ok", "IndexError", "makedirs error"}

\* C21, as stated: when the run before this one ended through tearDown() and
\* this run's construction has succeeded, every file whose copy failed in
\* that run while the source still existed is in the change set, and when
\* main() is over the copy loop has come to it.
RetriedNextRun ==
    (runs > 1 /\ ThroughTearDown(hist.prev.exit) /\ instance # None) =>
        \A p \in hist.prev.retry :
            /\ p \in Range(toBackup)
            /\ hist.tdBegun => \E i \in 1..idx : toBackup[i] = p

\* The run that shows C21 wrong read an entry that begins with zero bytes,
\* does not have the failed file in its change set and left main() on it
RetryLost ==
    /\ runs > 1 /\ ThroughTearDown(hist.prev.exit) /\ instance # None /\ hist.tdBegun
    /\ \E p \in hist.prev.retry : p \notin Range(toBackup) /\ toBackup[1] = Zeros(Len(hist.atStart.errored) - Len(Line(p))) \o p
    /\ idx = 0 /\ exc = "makedirs error"

\* the entries the run has enqueued (line 227), in order
Enqueued ==
    LET kept == SelectSeq(hist.failures, LAMBDA f : f.still)
    IN  Flatten([i \in 1..Len(kept) |-> Line(kept[i].path)])

\* C22, as stated: when a run that opened the logs is over, the
\* pending-retry log holds the lines enqueued during the run, in order, and
\* nothing else.
RetryLogExact ==
    (pc \in {"tornDown", "ended"} /\ fh.errored.st # "none") => files.errored = Enqueued

\* The run that shows C22 wrong read and truncated a log that was not
\* empty, and its entry lies behind as many zero bytes as the log was long
ZerosBeforeEntry ==
    /\ pc = "tornDown" /\ hist.retryRead /\ Enqueued # <<>>
    /\ files.errored = Zeros(Len(hist.retryAtStart)) \o Enqueued

\* a source path as the walk yields it: below the source root, a file name at
\* its end
Plain(s) == ~HasNul(s) /\ StartsWith(s, NEXTCLOUD_DATA) /\ s[Len(s)] # "/"
\* the destination the claim names: the part below the source root, put
\* below the mirror root; and its parent directory
Mirrored(s) == NEXTCLOUD_DATA_BACKUP \o Drop(s, Len(NEXTCLOUD_DATA))
ParentDir(d) == SubSeq(d, 1, RFind(d, "/"))

\* C23, as stated: for every path of the change set the destination is the
\* path with the leading source root replaced by the mirror root, the
\* directory checked and created is the parent directory of that
\* destination, and so the directories made on the backup volume are
\* parents of destinations, the parent of every entry the loop is past among
\* them.
DestinationMirrors ==
    /\ \A i \in 1..Len(toBackup) :
         LET s == toBackup[i]
         IN  Plain(s) =>
               /\ Dst(s) = Mirrored(s)
               /\ DestPath(Dst(s)) = ParentDir(Dst(s))
               /\ (i <= idx /\ ~Ignored(s)) =>
                     Components(ParentDir(Mirrored(s))) \in mirDirs \cup {BackupRoot}
    /\ \A d \in mirDirs :
         \E i \in 1..Len(toBackup) :
             Plain(toBackup[i]) /\ d \in Prefixes(Components(ParentDir(Mirrored(toBackup[i]))))

\* The run that shows C23 wrong took the file d/d, made a directory that is
\* not on the backup volume and not the directory d/ of the volume
WrongDirectoryMade ==
    /\ pc = "copy" /\ idx = 1 /\ toBackup[1] = FileD
    /\ DestPath(Dst(FileD)) = <<"/", "m", "n", "t", "/", "n", "e", "x", "t", "c", "l", "o", "u", "_", "b", "a", "c", "k", "u", "p", "/", "/">>
    /\ Components(DestPath(Dst(FileD))) \in mirDirs
    /\ Components(ParentDir(Mirrored(FileD))) \notin mirDirs

\* the instance's logs are open and the backup device is mounted at the
\* mount point
Live == (\A n \in LogNames : fh[n].st = "open") /\ <<"sdc1", "mp">> \in mounts

\* C24, as stated: whenever the constructor returns the stored instance, that
\* instance is live: its logs are open and the backup volume is mounted.
HandedOutLive == [][(SingletonCall /\ ~NeedsNewInstance(instance)) => Live]_vars

\* The process that shows C24 wrong called the constructor after tearDown()
\* (main() had raised before the copy loop, so not earlier) and was handed
\* the instance that is torn down: logs closed, the device not mounted
StaleInstanceReturned ==
    /\ pc = "tornDown" /\ exc = "IndexError" /\ hist.again
    /\ instance # None /\ handles = {instance} /\ objs = 1 /\ inits = 1
    /\ \A n \in LogNames : fh[n].st = "closed"
    /\ MountedFrom("sdc1") = {}

\* C25, as stated: a file that has its copy on the backup volume and was
\* written by another program after the walk of the run before this one
\* had looked at it is in the change set of that run or, once this run's
\* walk is over, in this run's.
NoWriteMissed ==
    (runs > 1 /\ ThroughTearDown(hist.prev.exit) /\ walkIdx = Len(WalkOrder)) =>
        \A p \in hist.prev.late : p \in hist.prev.taken \/ p \in Range(toBackup)

\* The run that shows C25 wrong follows a run that copied all it took and
\* committed its time after the file was written: the walk has left the
\* file, which is not later than the committed time, out of the change set
WriteMissed ==
    /\ runs > 1 /\ hist.prev.exit = "ok" /\ hist.prev.failures = 0
    /\ pc = "copy" /\ walkIdx = Len(WalkOrder)
    /\ FileA \in hist.prev.late /\ FileA \notin hist.prev.taken /\ FileA \notin Range(toBackup)
    /\ src[FileA].exists /\ src[FileA].mtime >= StartTime /\ src[FileA].mtime <= lastBackup

====
